---- MODULE Spec2Model ----
(***************************************************************************)
(* Update dispatch and handler execution of the tgx bot library:           *)
(* HandleWebhook, handleMessageUpdate, safeExecute (bot.go),               *)
(* OnMessage (message_handlers.go), OnCallback and handleCallbackQuery     *)
(* (callback_handlers.go).                                                 *)
(*                                                                         *)
(* Strings are sequences of one-character strings, so that strings.Split   *)
(* and strings.HasPrefix are computed rather than assumed.                 *)
(*                                                                         *)
(* The bot is constructed with a working logger: log calls have no effect  *)
(* on dispatch and are left out.  Messages and callback queries carry      *)
(* their sender, chat and originating message.  b.errorHandler is never    *)
(* nil: it is the default reporter or a custom one.                        *)
(***************************************************************************)
EXTENDS Integers, Sequences, FiniteSets, TLC

(***************************************************************************)
(* Bounds of the model.                                                    *)
(***************************************************************************)
\* a message text has at most MaxTokens tokens separated by single spaces,
\* each of at most MaxTokenLen characters (an empty token: two spaces in a row)
MaxTokens == 3
MaxTokenLen == 2
\* longest registered command name / callback-data key
MaxKeyLen == 1
\* longest callback data
MaxDataLen == 2
\* number of registration calls made during setup
MaxReg == 2
\* number of media fields (Photo .. VideoNote) populated in one message
MaxPopulated == 2
\* longest text of a message that also carries media
MediaTextLen == 1
\* number of distinct senders / chats / message ids
NumOrigins == 1
\* number of webhook workers (one goroutine per HTTP request)
NumConcWorkers == 2
NumConcOrigins == 2
NumWorkers == 1

TokenChars == {"/", "a"}

Workers == 1..NumWorkers

TokensUpTo(n) == UNION {[1..k -> TokenChars] : k \in 0..n}

Tokens == TokensUpTo(MaxTokenLen)

RECURSIVE Join(_)
Join(tokens) ==
    IF Len(tokens) = 1
    THEN tokens[1]
    ELSE tokens[1] \o <<" ">> \o Join(Tail(tokens))

Texts == {Join(ts) : ts \in UNION {[1..k -> Tokens] : k \in 1..MaxTokens}}
Keys == TokensUpTo(MaxKeyLen)
Datas == TokensUpTo(MaxDataLen)

(***************************************************************************)
(* strings.HasPrefix and strings.Split (one-character separator).          *)
(***************************************************************************)
HasPrefix(s, prefix) ==
    /\ Len(prefix) <= Len(s)
    /\ SubSeq(s, 1, Len(prefix)) = prefix

IndexOf(s, c) ==
    IF \E i \in 1..Len(s) : s[i] = c
    THEN CHOOSE i \in 1..Len(s) : s[i] = c /\ \A j \in 1..(i - 1) : s[j] # c
    ELSE 0

RECURSIVE Split(_, _)
Split(s, sep) ==
    LET i == IndexOf(s, sep)
    IN IF i = 0
       THEN <<s>>
       ELSE <<SubSeq(s, 1, i - 1)>> \o Split(SubSeq(s, i + 1, Len(s)), sep)

(***************************************************************************)
(* Errors.  A nil error, a *BotError with a numeric code, or a plain error.*)
(***************************************************************************)
MakeError(kind, code, msg, cause) ==
    [kind |-> kind, Code |-> code, Message |-> msg, Cause |-> cause]
NilErr == MakeError("nil", 0, "", "")
BotError(code, msg) == MakeError("BotError", code, msg, "")
PlainError(msg) == MakeError("error", 0, msg, "")
\* a function that was not entered, and one that was left by a panic
NotCalled == MakeError("notcalled", 0, "", "")
Unwound(v) == MakeError("unwound", 0, "", v)

IsAPIError(err, code) == err.kind = "BotError" /\ err.Code = code

\* fmt.Errorf("handler panic: %v", r)
PanicError(v) == MakeError("error", 0, "handler panic: ", v)

(***************************************************************************)
(* Event model.                                                            *)
(***************************************************************************)
MediaTags == {"Photo", "Video", "Voice", "Document", "Animation", "Sticker",
              "Audio", "VideoNote"}
ContentOrder == <<"Text", "Photo", "Video", "Voice", "Document", "Animation",
                  "Sticker", "Audio", "VideoNote">>
ContentTags == {ContentOrder[i] : i \in 1..Len(ContentOrder)}

\* a media field is 0 (nil) or a file reference
NoMedia == [t \in MediaTags |-> 0]
MediaOf(S) == [t \in MediaTags |-> IF t \in S THEN 1 ELSE 0]
MediaSets == {MediaOf(S) : S \in {T \in SUBSET MediaTags : Cardinality(T) <= MaxPopulated}}

Origins == 1..NumOrigins
UserIdOf(o) == 100 + o
ChatIdOf(o) == 200 + o
MessageIdOf(o) == 300 + o

MakeMessage(text, media, o) ==
    [Text |-> text, Media |-> media, From |-> UserIdOf(o), Chat |-> ChatIdOf(o),
     MessageId |-> MessageIdOf(o)]

Messages ==
    {MakeMessage(t, NoMedia, o) : t \in Texts, o \in Origins}
    \cup {MakeMessage(t, md, o) : t \in TokensUpTo(MediaTextLen), md \in MediaSets, o \in Origins}

MakeCallback(data, o) ==
    [ID |-> 400 + o, Data |-> data, From |-> UserIdOf(o),
     Message |-> [Chat |-> ChatIdOf(o), MessageId |-> MessageIdOf(o)]]

CallbackQueries == {MakeCallback(dt, o) : dt \in Datas, o \in Origins}

\* an absent (nil) pointer is the empty set, a present one a singleton
None == {}
Some(x) == {x}
Get(opt) == CHOOSE x \in opt : TRUE

Updates ==
    {[Message |-> Some(m), CallbackQuery |-> None] : m \in Messages}
    \cup {[Message |-> None, CallbackQuery |-> Some(c)] : c \in CallbackQueries}
    \cup {[Message |-> None, CallbackQuery |-> None]}
    \cup {[Message |-> Some(MakeMessage(t, NoMedia, o)), CallbackQuery |-> Some(c)] :
            t \in TokensUpTo(MediaTextLen), o \in Origins, c \in CallbackQueries}

EmptyUpdate == [Message |-> None, CallbackQuery |-> None]

Requests ==
    {[Method |-> "POST", Body |-> "json", Update |-> u] : u \in Updates}
    \cup {[Method |-> "GET", Body |-> "json", Update |-> EmptyUpdate],
          [Method |-> "POST", Body |-> "unreadable", Update |-> EmptyUpdate],
          [Method |-> "POST", Body |-> "notjson", Update |-> EmptyUpdate]}

(***************************************************************************)
(* Concurrent dispatch: net/http runs HandleWebhook on one goroutine per   *)
(* request.  The requests come from different users and chats.             *)
(***************************************************************************)
ConcWorkers == 1..NumConcWorkers
ConcOrigins == 1..NumConcOrigins
ConcKeys == {<<"a">>}
ConcTags == {"Text", "Photo"}
ConcTexts == {<<"a">>, <<"/", "a">>, <<"/", "a", " ", "a">>, <<"/", "a", " ", "/">>}

ConcUpdates ==
    {[Message |-> Some(MakeMessage(t, NoMedia, o)), CallbackQuery |-> None] :
        t \in ConcTexts, o \in ConcOrigins}
    \cup {[Message |-> Some(MakeMessage(<<>>, MediaOf({tag}), o)), CallbackQuery |-> None] :
        tag \in {"Photo", "Video"}, o \in ConcOrigins}
    \cup {[Message |-> None, CallbackQuery |-> Some(MakeCallback(dt, o))] :
        dt \in {<<"a">>, <<"a", "a">>}, o \in ConcOrigins}

ConcRequests == {[Method |-> "POST", Body |-> "json", Update |-> u] : u \in ConcUpdates}

(***************************************************************************)
(* What a handler (application code) may do when invoked, and what a       *)
(* custom fallback reporter may do.                                        *)
(***************************************************************************)
HandlerOutcomes ==
    {[type |-> "return", err |-> e, value |-> ""] :
        e \in {NilErr, BotError(403, "Forbidden"), BotError(429, "Too Many Requests"),
               BotError(400, "Bad Request"), PlainError("failed")}}
    \cup {[type |-> "panic", err |-> NilErr, value |-> "boom"]}

NoOutcome == [type |-> "none", err |-> NilErr, value |-> ""]

ReporterOutcomes == {"return", "panic"}

\* the default reporter returns; only the default reporter is known to
\* invoke the transport
ReporterBehaviours(eh) == IF eh = "custom" THEN ReporterOutcomes ELSE {"return"}

VARIABLES
    messageHandlers,    \* Bot.messageHandlers: content tag -> handler
    commandHandler,     \* Bot.commandHandler: command name -> handler
    callbackHandlers,   \* Bot.callbackHandlers: callback data -> handler
    errorHandler,       \* Bot.errorHandler: "default" or "custom"
    nreg,               \* registration calls made so far
    history,            \* the registration calls, in order: registry and key
    started,            \* the webhook endpoint has been activated
    disp                \* per worker: the dispatch it is executing

vars == <<messageHandlers, commandHandler, callbackHandlers, errorHandler, nreg,
          history, started, disp>>

EmptyMap == [k \in {} |-> 0]
\* a map write that keeps an existing entry
PutIfAbsent(map, k, h) ==
    [x \in DOMAIN map \cup {k} |-> IF x \in DOMAIN map THEN map[x] ELSE h]

Put(map, k, h) == [x \in DOMAIN map \cup {k} |-> IF x = k THEN h ELSE map[x]]

(***************************************************************************)
(* Context and CallbackContext.                                            *)
(***************************************************************************)
\* NewContext that hands out the Context of a message dispatch in flight
\* when there is one: one Context shared by the dispatches
NewContextShared(message) ==
    LET inflight == {v \in DOMAIN disp : disp[v].pc = "handler" /\ disp[v].kind = "message"}
    IN IF inflight # {}
       THEN [disp[CHOOSE v \in inflight : TRUE].ctx EXCEPT !.Args = <<>>, !.Media = NoMedia]
       ELSE [Text |-> message.Text, UserID |-> message.From,
             MessageId |-> message.MessageId, ChatID |-> message.Chat,
             Args |-> <<>>, Media |-> NoMedia]

NewContext(message) ==
    [Text |-> message.Text, UserID |-> message.From, MessageId |-> message.MessageId,
     ChatID |-> message.Chat, Args |-> <<>>, Media |-> NoMedia]

NewCallbackContext(cb) ==
    [QueryID |-> cb.ID, Data |-> cb.Data, Message |-> cb.Message, UserID |-> cb.From]

NoContext == [Text |-> <<>>, UserID |-> 0, MessageId |-> 0, ChatID |-> 0,
              Args |-> <<>>, Media |-> NoMedia]

(***************************************************************************)
(* handleMessageUpdate up to the call of safeExecute: the route taken,     *)
(* the handler selected (0: none), the Context built and the error         *)
(* returned when no handler is called.                                     *)
(***************************************************************************)
Routed(route, handler, ctx, err) ==
    [route |-> route, handler |-> handler, ctx |-> ctx, err |-> err]

\* FirstCase that takes the last case whose condition holds
FirstCaseLast(message) ==
    LET populated(i) == IF ContentOrder[i] = "Text"
                        THEN message.Text # <<>>
                        ELSE message.Media[ContentOrder[i]] # 0
    IN IF \E i \in 1..Len(ContentOrder) : populated(i)
       THEN CHOOSE i \in 1..Len(ContentOrder) :
                populated(i) /\ \A j \in (i + 1)..Len(ContentOrder) : ~populated(j)
       ELSE 0

\* the switch of handleMessageUpdate: the first case whose condition holds
\* (0: the default case)
FirstCase(message) ==
    LET populated(i) == IF ContentOrder[i] = "Text"
                        THEN message.Text # <<>>
                        ELSE message.Media[ContentOrder[i]] # 0
    IN IF \E i \in 1..Len(ContentOrder) : populated(i)
       THEN CHOOSE i \in 1..Len(ContentOrder) :
                populated(i) /\ \A j \in 1..(i - 1) : ~populated(j)
       ELSE 0

\* SetContent that fills ctx.Photo in every case
SetContentPhoto(ctx, message, tag) ==
    IF tag = "Text" THEN ctx ELSE [ctx EXCEPT !.Media["Photo"] = message.Media["Photo"]]

\* ctx.Photo = message.Photo, ctx.Video = message.Video, ...
SetContent(ctx, message, tag) ==
    IF tag = "Text" THEN ctx ELSE [ctx EXCEPT !.Media[tag] = message.Media[tag]]

CommandName(command) == command[2]

\* RouteCommand with ctx.Args = parts instead of parts[1:]
RouteCommandArgsFromZero(message, ctx0, cmds) ==
    LET parts == Split(message.Text, " ")
        command == Split(parts[1], "/")
        ctx == IF Len(parts) > 1 THEN [ctx0 EXCEPT !.Args = parts] ELSE ctx0
    IN IF Len(command) <= 1
       THEN Routed("malformed", 0, ctx0, BotError(500, "Not a valid command"))
       ELSE IF CommandName(command) \in DOMAIN cmds
       THEN Routed("command", cmds[CommandName(command)], ctx, NilErr)
       ELSE Routed("unknown", 0, ctx, BotError(404, "Unknown command"))

\* RouteCommand that hands an unknown command to the "Text" handler
RouteCommandTextFallback(message, ctx0, cmds, msgs) ==
    LET parts == Split(message.Text, " ")
        command == Split(parts[1], "/")
        ctx == IF Len(parts) > 1 THEN [ctx0 EXCEPT !.Args = Tail(parts)] ELSE ctx0
    IN IF Len(command) <= 1
       THEN Routed("malformed", 0, ctx0, BotError(500, "Not a valid command"))
       ELSE IF CommandName(command) \in DOMAIN cmds
       THEN Routed("command", cmds[CommandName(command)], ctx, NilErr)
       ELSE IF "Text" \in DOMAIN msgs
       THEN Routed("content", msgs["Text"], ctx, NilErr)
       ELSE Routed("unknown", 0, ctx, BotError(404, "Unknown command"))

RouteCommand(message, ctx0, cmds) ==
    LET parts == Split(message.Text, " ")
        command == Split(parts[1], "/")
        ctx == IF Len(parts) > 1 THEN [ctx0 EXCEPT !.Args = Tail(parts)] ELSE ctx0
    IN IF Len(parts) < 1
       THEN Routed("malformed", 0, ctx0, BotError(500, "Failed to parse command"))
       ELSE IF Len(command) <= 1
       THEN Routed("malformed", 0, ctx0, BotError(500, "Not a valid command"))
       ELSE IF CommandName(command) \in DOMAIN cmds
       THEN Routed("command", cmds[CommandName(command)], ctx, NilErr)
       ELSE Routed("unknown", 0, ctx, BotError(404, "Unknown command"))

\* RouteContent that falls back to the "Text" handler on a registry miss
RouteContentFallback(message, ctx0, msgs) ==
    LET i == FirstCase(message)
    IN IF i = 0
       THEN Routed("unsupported", 0, ctx0,
                   BotError(400, "Unsupported message type received. No handler is available for this message type."))
       ELSE IF ContentOrder[i] \in DOMAIN msgs
       THEN Routed("content", msgs[ContentOrder[i]],
                   SetContent(ctx0, message, ContentOrder[i]), NilErr)
       ELSE IF "Text" \in DOMAIN msgs
       THEN Routed("content", msgs["Text"], ctx0, NilErr)
       ELSE Routed("miss", 0, ctx0, NilErr)

RouteContent(message, ctx0, msgs) ==
    LET i == FirstCase(message)
    IN IF i = 0
       THEN Routed("unsupported", 0, ctx0,
                   BotError(400, "Unsupported message type received. No handler is available for this message type."))
       ELSE IF ContentOrder[i] \in DOMAIN msgs
       THEN Routed("content", msgs[ContentOrder[i]],
                   SetContent(ctx0, message, ContentOrder[i]), NilErr)
       ELSE Routed("miss", 0, ctx0, NilErr)

\* handleMessageUpdate that hands an unknown command to the "Text" handler
handleMessageUpdateUnknownToText(message, cmds, msgs) ==
    LET ctx0 == NewContext(message)
    IN IF HasPrefix(message.Text, <<"/">>)
       THEN RouteCommandTextFallback(message, ctx0, cmds, msgs)
       ELSE RouteContent(message, ctx0, msgs)

\* handleMessageUpdate that parses an empty text as a command
handleMessageUpdateEmptyIsCommand(message, cmds, msgs) ==
    LET ctx0 == NewContext(message)
    IN IF message.Text = <<>> \/ HasPrefix(message.Text, <<"/">>)
       THEN RouteCommand(message, ctx0, cmds)
       ELSE RouteContent(message, ctx0, msgs)

handleMessageUpdate(message, cmds, msgs) ==
    LET ctx0 == NewContext(message)
    IN IF HasPrefix(message.Text, <<"/">>)
       THEN RouteCommand(message, ctx0, cmds)
       ELSE RouteContent(message, ctx0, msgs)

(***************************************************************************)
(* handleCallbackQuery up to the call of the handler.  order is the order  *)
(* in which this range over b.callbackHandlers visits the keys.            *)
(***************************************************************************)
Orders(S) == {f \in [1..Cardinality(S) -> S] : \A i, j \in 1..Cardinality(S) : f[i] = f[j] => i = j}

\* FirstPrefix with the arguments of strings.HasPrefix swapped
FirstPrefixSwapped(data, order) ==
    IF \E i \in 1..Len(order) : HasPrefix(order[i], data)
    THEN CHOOSE i \in 1..Len(order) :
            HasPrefix(order[i], data) /\ \A j \in 1..(i - 1) : ~HasPrefix(order[j], data)
    ELSE 0

FirstPrefix(data, order) ==
    IF \E i \in 1..Len(order) : HasPrefix(data, order[i])
    THEN CHOOSE i \in 1..Len(order) :
            HasPrefix(data, order[i]) /\ \A j \in 1..(i - 1) : ~HasPrefix(data, order[j])
    ELSE 0

\* handleCallbackQuery without the exact-match lookup
handleCallbackQueryPrefixOnly(cb, cbs, order) ==
    LET ctx == NewCallbackContext(cb)
        i == FirstPrefix(cb.Data, order)
    IN IF i # 0
       THEN Routed("prefix", cbs[order[i]], ctx, NilErr)
       ELSE Routed("nomatch", 0, ctx, NilErr)

\* handleCallbackQuery that returns a not-found error when nothing matches
handleCallbackQueryNotFound(cb, cbs, order) ==
    LET ctx == NewCallbackContext(cb)
        i == FirstPrefix(cb.Data, order)
    IN IF cb.Data \in DOMAIN cbs
       THEN Routed("exact", cbs[cb.Data], ctx, NilErr)
       ELSE IF i # 0
       THEN Routed("prefix", cbs[order[i]], ctx, NilErr)
       ELSE Routed("nomatch", 0, ctx, BotError(404, "Unknown callback"))

handleCallbackQuery(cb, cbs, order) ==
    LET ctx == NewCallbackContext(cb)
        i == FirstPrefix(cb.Data, order)
    IN IF cb.Data \in DOMAIN cbs
       THEN Routed("exact", cbs[cb.Data], ctx, NilErr)
       ELSE IF i # 0
       THEN Routed("prefix", cbs[order[i]], ctx, NilErr)
       ELSE Routed("nomatch", 0, ctx, NilErr)

(***************************************************************************)
(* The fallback reporter and safeExecute.                                  *)
(***************************************************************************)
\* what the API Transport answers to one invocation: nil or an error
TransportOutcomes == {NilErr, BotError(403, "Forbidden"), BotError(400, "Bad Request")}

\* one invocation of the API Transport: the operation, its parameter
\* mapping and the error the transport answered
ApiCall(op, params, tr) == [op |-> op, params |-> params, err |-> tr]

\* ctx.makeRequest and makeAPIRequest: one invocation, whose error is
\* returned
makeRequest(op, params, tr) == [api |-> <<ApiCall(op, params, tr)>>, err |-> tr]

ReporterTransport(eh) == IF eh = "default" THEN TransportOutcomes ELSE {NilErr}

\* an entry that is put in a payload only under a condition
Opt(name, present, value) == IF present THEN name :> value ELSE EmptyMap

ParseModes == {"", "HTML", "MarkdownV2"}

\* *SendMessageRequest; ReplyMarkup and ReplyParams are nil ({}) or set
MakeSendMessageRequest(chatId, text, parseMode, markup, replyParams) ==
    [ChatId |-> chatId, Text |-> text, ParseMode |-> parseMode,
     ReplyMarkup |-> markup, ReplyParams |-> replyParams]

\* Reply that addresses the user instead of the chat
ReplyToUser(ctx, text, tr) ==
    makeRequest("sendMessage",
                [chat_id |-> ctx.UserID, text |-> text,
                 reply_with_parameters |-> ctx.MessageId], tr)

Reply(ctx, text, tr) ==
    makeRequest("sendMessage",
                [chat_id |-> ctx.ChatID, text |-> text,
                 reply_with_parameters |-> ctx.MessageId], tr)

ReplyWithOpts(ctx, req, tr) ==
    LET replyParam == [message_id |-> ctx.MessageId]
                      @@ Opt("chat_id", req.ReplyParams # None
                                        /\ Get(req.ReplyParams).ChatId # 0, ctx.ChatID)
    IN makeRequest("sendMessage",
                   [chat_id |-> ctx.ChatID, text |-> req.Text]
                   @@ Opt("parse_mode", req.ParseMode \in {"HTML", "MarkdownV2"},
                          req.ParseMode)
                   @@ Opt("reply_markup", req.ReplyMarkup # None, req.ReplyMarkup)
                   @@ Opt("reply_parameters",
                          req.ReplyParams # None /\ Get(req.ReplyParams).MessageId # 0,
                          replyParam),
                   tr)

ReplyWithInlineKeyboard(ctx, text, buttons, tr) ==
    makeRequest("sendMessage",
                [chat_id |-> ctx.ChatID, text |-> text,
                 reply_markup |-> [inline_keyboard |-> buttons]], tr)

\* CallbackContext.Reply; opts is nil ({}) or a request
CallbackContextReply(ctx, text, opts, tr) ==
    makeRequest("sendMessage",
                [chat_id |-> ctx.Message.Chat, text |-> text]
                @@ Opt("parse_mode",
                       opts # None /\ Get(opts).ParseMode \in {"HTML", "MarkdownV2"},
                       Get(opts).ParseMode)
                @@ Opt("reply_markup",
                       opts # None /\ Get(opts).ReplyMarkup # None, Get(opts).ReplyMarkup),
                tr)

\* defaultErrorHandler that sends the apology again when the transport
\* answers an error
defaultErrorHandlerRetry(ctx, err, tr) ==
    LET req == MakeSendMessageRequest(ctx.ChatID,
                   "Sorry, something went wrong. Please try again later.", "", None, None)
    IN IF ReplyWithOpts(ctx, req, tr).err = NilErr
       THEN ReplyWithOpts(ctx, req, tr).api
       ELSE ReplyWithOpts(ctx, req, tr).api \o ReplyWithOpts(ctx, req, tr).api

\* the result of ctx.ReplyWithOpts is dropped
defaultErrorHandler(ctx, err, tr) ==
    LET req == MakeSendMessageRequest(ctx.ChatID,
                   "Sorry, something went wrong. Please try again later.", "", None, None)
    IN ReplyWithOpts(ctx, req, tr).api

\* b.errorHandler(ctx, err): the invocation, the API calls it makes and
\* whether it panics (rb: what a custom reporter does; tr: what the
\* transport answers to the default reporter)
Effects(reports, api, ret) == [reports |-> reports, api |-> api, ret |-> ret]

CallErrorHandler(eh, ctx, err, rb, tr) ==
    Effects(<<[ctx |-> ctx, err |-> err]>>,
            IF eh = "default" THEN defaultErrorHandler(ctx, err, tr) ELSE <<>>,
            IF eh = "custom" /\ rb = "panic" THEN Unwound("reporter") ELSE NilErr)

\* Recover that logs the panic and does not call the reporter
RecoverLogOnly(eh, ctx, v, before, rb, tr) ==
    Effects(before.reports, before.api, NilErr)

\* the deferred function of safeExecute, run while v is panicking: the
\* function returns its zero result (nil) unless the reporter panics again
Recover(eh, ctx, v, before, rb, tr) ==
    LET r == CallErrorHandler(eh, ctx, PanicError(v), rb, tr)
    IN Effects(before.reports \o r.reports, before.api \o r.api, r.ret)

\* Classify without the 403 case
ClassifyRateLimitOnly(err) ==
    IF IsAPIError(err, 429) THEN "ratelimited" ELSE "generic"

\* Classify without the 429 case
ClassifyBlockedOnly(err) ==
    IF IsAPIError(err, 403) THEN "blocked" ELSE "generic"

Classify(err) ==
    IF IsAPIError(err, 403) THEN "blocked"
    ELSE IF IsAPIError(err, 429) THEN "ratelimited"
    ELSE "generic"

\* o: what the handler did; rb1, rb2: what a custom reporter does when
\* called from the switch and from the deferred function; tr1, tr2: what
\* the transport answers to the default reporter there
safeExecute(ctx, o, eh, rb1, rb2, tr1, tr2) ==
    LET nothing == Effects(<<>>, <<>>, NilErr)
    IN IF o.type = "panic"
       THEN Recover(eh, ctx, o.value, nothing, rb2, tr2)
       ELSE IF o.err = NilErr
       THEN nothing
       ELSE IF Classify(o.err) # "generic"
       THEN Effects(<<>>, <<>>, o.err)
       ELSE LET r == CallErrorHandler(eh, ctx, o.err, rb1, tr1)
            IN IF r.ret.kind = "unwound"
               THEN Recover(eh, ctx, r.ret.Cause, r, rb2, tr2)
               ELSE Effects(r.reports, r.api, o.err)

(***************************************************************************)
(* The state of one dispatch.                                              *)
(***************************************************************************)
Idle ==
    [pc |-> "idle", req |-> [Method |-> "", Body |-> "", Update |-> EmptyUpdate],
     kind |-> "none", route |-> "none", handler |-> 0, ctx |-> NoContext,
     calls |-> <<>>, asked |-> <<>>, outcome |-> NoOutcome, reports |-> <<>>, api |-> <<>>,
     seRet |-> NotCalled, ret |-> NotCalled, status |-> 0, escaped |-> FALSE]

Init ==
    /\ messageHandlers = EmptyMap
    /\ commandHandler = EmptyMap
    /\ callbackHandlers = EmptyMap
    /\ errorHandler = "default"
    /\ nreg = 0
    /\ history = <<>>
    /\ started = FALSE
    /\ disp = [w \in Workers |-> Idle]

(***************************************************************************)
(* Registration, during setup.  Every registration passes a new function,  *)
(* identified by the number of the registration call.                      *)
(***************************************************************************)
CanRegister == ~started /\ nreg < MaxReg

OnCommand(name) ==
    /\ CanRegister
    /\ commandHandler' = Put(commandHandler, name, nreg + 1)
    /\ nreg' = nreg + 1
    /\ history' = Append(history, [registry |-> "command", key |-> name])
    /\ UNCHANGED <<messageHandlers, callbackHandlers, errorHandler, started, disp>>

OnMessage(messageType) ==
    /\ CanRegister
    /\ messageHandlers' = Put(messageHandlers, messageType, nreg + 1)
    /\ nreg' = nreg + 1
    /\ history' = Append(history, [registry |-> "message", key |-> <<messageType>>])
    /\ UNCHANGED <<commandHandler, callbackHandlers, errorHandler, started, disp>>

OnCallback(data) ==
    /\ CanRegister
    /\ callbackHandlers' = Put(callbackHandlers, data, nreg + 1)
    /\ nreg' = nreg + 1
    /\ history' = Append(history, [registry |-> "callback", key |-> data])
    /\ UNCHANGED <<messageHandlers, commandHandler, errorHandler, started, disp>>

SetErrorHandler ==
    /\ ~started
    /\ errorHandler = "default"
    /\ errorHandler' = "custom"
    /\ UNCHANGED <<messageHandlers, commandHandler, callbackHandlers, nreg, history,
                   started, disp>>

(***************************************************************************)
(* HandleWebhook, from the request to the call of the selected handler     *)
(* or, when no handler is called, to its return.                           *)
(***************************************************************************)
Finished(d, ret, status) == [d EXCEPT !.pc = "done", !.ret = ret, !.status = status]

\* Dispatch that answers 500 when the router returns an error
DispatchErrorStatus(d, kind, r) ==
    LET e == [d EXCEPT !.kind = kind, !.route = r.route, !.handler = r.handler,
                       !.ctx = r.ctx]
    IN IF r.handler = 0
       THEN Finished(e, r.err, IF r.err = NilErr THEN 200 ELSE 500)
       ELSE [e EXCEPT !.pc = "handler",
                      !.calls = <<[handler |-> r.handler, ctx |-> r.ctx]>>]

Dispatch(d, kind, r) ==
    LET e == [d EXCEPT !.kind = kind, !.route = r.route, !.handler = r.handler,
                       !.ctx = r.ctx]
    IN IF r.handler = 0
       THEN Finished(e, r.err, 200)
       ELSE [e EXCEPT !.pc = "handler",
                      !.calls = <<[handler |-> r.handler, ctx |-> r.ctx]>>]

\* Begin without the test of the HTTP method
BeginAnyMethod(req, cmds, msgs, cbs, order) ==
    LET d == [Idle EXCEPT !.req = req]
        update == req.Update
    IN IF req.Body # "json"
       THEN Finished(d, NotCalled, 400)
       ELSE IF update.Message # None
       THEN Dispatch(d, "message", handleMessageUpdate(Get(update.Message), cmds, msgs))
       ELSE IF update.CallbackQuery # None
       THEN Dispatch(d, "callback", handleCallbackQuery(Get(update.CallbackQuery), cbs, order))
       ELSE Finished(d, NotCalled, 200)

\* Begin that hands the update to the callback router when the message
\* router has called no handler
BeginCallbackToo(req, cmds, msgs, cbs, order) ==
    LET d == [Idle EXCEPT !.req = req]
        update == req.Update
        m == Dispatch(d, "message", handleMessageUpdate(Get(update.Message), cmds, msgs))
    IN IF req.Method # "POST"
       THEN Finished(d, NotCalled, 405)
       ELSE IF req.Body # "json"
       THEN Finished(d, NotCalled, 400)
       ELSE IF update.Message # None /\ (m.handler # 0 \/ update.CallbackQuery = None)
       THEN m
       ELSE IF update.CallbackQuery # None
       THEN Dispatch(d, "callback", handleCallbackQuery(Get(update.CallbackQuery), cbs, order))
       ELSE Finished(d, NotCalled, 200)

Begin(req, cmds, msgs, cbs, order) ==
    LET d == [Idle EXCEPT !.req = req]
        update == req.Update
    IN IF req.Method # "POST"
       THEN Finished(d, NotCalled, 405)
       ELSE IF req.Body # "json"
       THEN Finished(d, NotCalled, 400)
       ELSE IF update.Message # None
       THEN Dispatch(d, "message", handleMessageUpdate(Get(update.Message), cmds, msgs))
       ELSE IF update.CallbackQuery # None
       THEN Dispatch(d, "callback", handleCallbackQuery(Get(update.CallbackQuery), cbs, order))
       ELSE Finished(d, NotCalled, 200)

Receive(w, requests) ==
    /\ disp[w].pc = "idle"
    /\ \E req \in requests, order \in Orders(DOMAIN callbackHandlers) :
          disp' = [disp EXCEPT ![w] =
                      Begin(req, commandHandler, messageHandlers, callbackHandlers, order)]
    /\ started' = TRUE
    /\ UNCHANGED <<messageHandlers, commandHandler, callbackHandlers, errorHandler, nreg,
                   history>>

HandleWebhook(w) == Receive(w, Requests)

HandleWebhookConc(w) == Receive(w, ConcRequests)

(***************************************************************************)
(* The handler returns or panics, and HandleWebhook runs to its end.       *)
(***************************************************************************)
AfterMessageHandler(d, o, eh, rb1, rb2, tr1, tr2) ==
    LET se == safeExecute(d.ctx, o, eh, rb1, rb2, tr1, tr2)
        \* a panic leaving safeExecute is recovered by handleMessageUpdate,
        \* which then returns nil
        ret == IF se.ret.kind = "unwound" THEN NilErr ELSE se.ret
    IN [d EXCEPT !.pc = "done", !.outcome = o, !.reports = se.reports, !.api = se.api,
                 !.seRet = se.ret, !.ret = ret, !.status = 200]

\* HandleWebhook without its deferred recover: the panic reaches its caller
WebhookNoRecover(d, v) ==
    [Finished(d, Unwound(v), 0) EXCEPT !.escaped = TRUE]

\* a panic v reaches the deferred recover of HandleWebhook, which logs it:
\* HandleWebhook returns without reaching w.WriteHeader
WebhookRecover(d, v) == Finished(d, Unwound(v), 0)

AfterCallbackHandler(d, o) ==
    IF o.type = "panic"
    THEN WebhookRecover([d EXCEPT !.outcome = o], o.value)
    ELSE Finished([d EXCEPT !.outcome = o], o.err, 200)

\* the status the client receives: net/http answers 200 when the handler
\* returns without having written a header
ResponseStatus(d) == IF d.status = 0 THEN 200 ELSE d.status

\* HandlerReturns under a lock of the Bot that is held while a handler
\* runs: a handler returns only when no other handler is running
HandlerReturnsLocked(w) ==
    /\ disp[w].pc = "handler"
    /\ \A v \in DOMAIN disp \ {w} : disp[v].pc \notin {"handler", "hung"}
    /\ \E o \in HandlerOutcomes, rb1, rb2 \in ReporterBehaviours(errorHandler),
          tr1, tr2 \in ReporterTransport(errorHandler) :
          disp' = [disp EXCEPT ![w] =
                      IF disp[w].kind = "message"
                      THEN AfterMessageHandler(disp[w], o, errorHandler, rb1, rb2, tr1, tr2)
                      ELSE AfterCallbackHandler(disp[w], o)]
    /\ UNCHANGED <<messageHandlers, commandHandler, callbackHandlers, errorHandler, nreg,
                   history, started>>

HandlerReturns(w) ==
    /\ disp[w].pc = "handler"
    /\ \E o \in HandlerOutcomes, rb1, rb2 \in ReporterBehaviours(errorHandler),
          tr1, tr2 \in ReporterTransport(errorHandler) :
          disp' = [disp EXCEPT ![w] =
                      IF disp[w].kind = "message"
                      THEN AfterMessageHandler(disp[w], o, errorHandler, rb1, rb2, tr1, tr2)
                      ELSE AfterCallbackHandler(disp[w], o)]
    /\ UNCHANGED <<messageHandlers, commandHandler, callbackHandlers, errorHandler, nreg,
                   history, started>>

\* the response has been sent and the worker's goroutine ends
Release(w) ==
    /\ disp[w].pc = "done"
    /\ disp' = [disp EXCEPT ![w] = Idle]
    /\ UNCHANGED <<messageHandlers, commandHandler, callbackHandlers, errorHandler, nreg,
                   history, started>>

Next ==
    \/ \E name \in Keys : OnCommand(name)
    \/ \E messageType \in ContentTags : OnMessage(messageType)
    \/ \E data \in Keys : OnCallback(data)
    \/ SetErrorHandler
    \/ \E w \in Workers : HandleWebhook(w)
    \/ \E w \in Workers : HandlerReturns(w)
    \/ \E w \in Workers : Release(w)

Spec == Init /\ [][Next]_vars

(***************************************************************************)
(* Properties.                                                             *)
(***************************************************************************)
\* the dispatches that have reached the call of their handler or their end
InitConc ==
    /\ messageHandlers = EmptyMap
    /\ commandHandler = EmptyMap
    /\ callbackHandlers = EmptyMap
    /\ errorHandler = "default"
    /\ nreg = 0
    /\ history = <<>>
    /\ started = FALSE
    /\ disp = [w \in ConcWorkers |-> Idle]

NextConc ==
    \/ \E name \in ConcKeys : OnCommand(name)
    \/ \E messageType \in ConcTags : OnMessage(messageType)
    \/ \E data \in ConcKeys : OnCallback(data)
    \/ SetErrorHandler
    \/ \E w \in ConcWorkers : HandleWebhookConc(w)
    \/ \E w \in ConcWorkers : HandlerReturns(w)
    \/ \E w \in ConcWorkers : Release(w)

SpecConc == InitConc /\ [][NextConc]_vars

(***************************************************************************)
(* Concurrent dispatch with handlers that may never return.  Each request  *)
(* has its goroutine and the Go scheduler is fair to every goroutine that  *)
(* can run: a handler that is going to return does return.                 *)
(***************************************************************************)
LiveUpdates ==
    {[Message |-> Some(MakeMessage(t, NoMedia, o)), CallbackQuery |-> None] :
        t \in {<<"a">>, <<"/", "a">>}, o \in ConcOrigins}
    \cup {[Message |-> None, CallbackQuery |-> Some(MakeCallback(<<"a">>, o))] :
        o \in ConcOrigins}

LiveRequests == {[Method |-> "POST", Body |-> "json", Update |-> u] : u \in LiveUpdates}

HandleWebhookLive(w) == Receive(w, LiveRequests)

\* the handler blocks for ever: the goroutine makes no further step
HandlerHangs(w) ==
    /\ disp[w].pc = "handler"
    /\ disp' = [disp EXCEPT ![w].pc = "hung"]
    /\ UNCHANGED <<messageHandlers, commandHandler, callbackHandlers, errorHandler, nreg,
                   history, started>>

NextLive ==
    \/ \E name \in ConcKeys : OnCommand(name)
    \/ \E messageType \in {"Text"} : OnMessage(messageType)
    \/ \E data \in ConcKeys : OnCallback(data)
    \/ SetErrorHandler
    \/ \E w \in ConcWorkers : HandleWebhookLive(w)
    \/ \E w \in ConcWorkers : HandlerReturns(w)
    \/ \E w \in ConcWorkers : HandlerHangs(w)
    \/ \E w \in ConcWorkers : Release(w)

SpecLive ==
    /\ InitConc
    /\ [][NextLive]_vars
    /\ \A w \in ConcWorkers : WF_vars(HandlerReturns(w))

(***************************************************************************)
(* Handlers that use their Context: the handler makes one call of a        *)
(* convenience operation and returns what the operation returned.          *)
(***************************************************************************)
ReplyTexts == {"hello", ""}
MarkupValues == {None, Some("keyboard")}
ReplyParamValues == {None, Some([MessageId |-> 1, ChatId |-> 0]),
                     Some([MessageId |-> 1, ChatId |-> 5])}

\* the requests a handler passes: their ChatId is another chat
SendMessageRequests ==
    {MakeSendMessageRequest(999, text, pm, markup, rp) :
        text \in ReplyTexts, pm \in ParseModes, markup \in MarkupValues,
        rp \in ReplyParamValues}

Asked(method, text) == [method |-> method, text |-> text]

\* the calls a message or command handler may make, with their results
ContextCalls(ctx, tr) ==
    {[asked |-> Asked("Reply", text), result |-> Reply(ctx, text, tr)] :
        text \in ReplyTexts}
    \cup {[asked |-> Asked("ReplyWithOpts", req.Text), result |-> ReplyWithOpts(ctx, req, tr)] :
        req \in SendMessageRequests}
    \cup {[asked |-> Asked("ReplyWithInlineKeyboard", text),
           result |-> ReplyWithInlineKeyboard(ctx, text, <<<<"button">>>>, tr)] :
        text \in ReplyTexts}

\* CallbackContext.EditMessage; opts is nil ({}) or the options
EditMessage(ctx, newText, opts, tr) ==
    makeRequest("editMessageText",
                [chat_id |-> ctx.Message.Chat, message_id |-> ctx.Message.MessageId,
                 text |-> newText]
                @@ Opt("parse_mode",
                       opts # None /\ Get(opts).ParseMode \in {"HTML", "MarkdownV2"},
                       Get(opts).ParseMode)
                @@ Opt("disable_web_page_preview",
                       opts # None /\ Get(opts).DisableWebPagePreview, TRUE)
                @@ Opt("reply_markup",
                       opts # None /\ Get(opts).ReplyMarkup # None, Get(opts).ReplyMarkup),
                tr)

EditMessageOptionValues ==
    {None} \cup {Some([ParseMode |-> pm, DisableWebPagePreview |-> dp, ReplyMarkup |-> markup]) :
                    pm \in ParseModes, dp \in BOOLEAN, markup \in MarkupValues}

\* the calls a callback handler may make, with their results
CallbackContextCalls(ctx, tr) ==
    {[asked |-> Asked("Reply", text),
      result |-> CallbackContextReply(ctx, text, opts, tr)] :
        text \in ReplyTexts,
        opts \in {None} \cup {Some(req) : req \in SendMessageRequests}}
    \cup {[asked |-> Asked("EditMessage", text),
           result |-> EditMessage(ctx, text, opts, tr)] :
        text \in ReplyTexts, opts \in EditMessageOptionValues}

HandlerCalls(w) ==
    /\ disp[w].pc = "handler"
    /\ \E tr \in TransportOutcomes,
          rb1, rb2 \in ReporterBehaviours(errorHandler),
          tr1, tr2 \in ReporterTransport(errorHandler) :
          \E c \in IF disp[w].kind = "message"
                   THEN ContextCalls(disp[w].ctx, tr)
                   ELSE CallbackContextCalls(disp[w].ctx, tr) :
             LET o == [type |-> "return", err |-> c.result.err, value |-> ""]
                 d == IF disp[w].kind = "message"
                      THEN AfterMessageHandler(disp[w], o, errorHandler, rb1, rb2, tr1, tr2)
                      ELSE AfterCallbackHandler(disp[w], o)
             IN disp' = [disp EXCEPT ![w] =
                            [d EXCEPT !.asked = <<c.asked>>,
                                      !.api = c.result.api \o d.api]]
    /\ UNCHANGED <<messageHandlers, commandHandler, callbackHandlers, errorHandler, nreg,
                   history, started>>

\* *EditMessageTextRequest
EditMessageTextRequests ==
    {[ChatId |-> ChatIdOf(o), MessageId |-> MessageIdOf(o), Text |-> text,
      ReplyMarkup |-> "keyboard"] : o \in ConcOrigins, text \in ReplyTexts}

\* Bot.EditMessageText: the builder gets chat_id and message_id
BotEditMessageText(req, tr) ==
    makeRequest("getMyShortDescription",
                [chat_id |-> req.ChatId, message_id |-> req.MessageId], tr)

\* the application calls b.EditMessageText
EditMessageText(w) ==
    /\ disp[w].pc = "idle"
    /\ \E req \in EditMessageTextRequests, tr \in TransportOutcomes :
          LET r == BotEditMessageText(req, tr)
          IN disp' = [disp EXCEPT ![w] =
                         [Idle EXCEPT !.pc = "done", !.kind = "edit",
                                      !.asked = <<[method |-> "EditMessageText", req |-> req]>>,
                                      !.api = r.api, !.ret = r.err]]
    /\ UNCHANGED <<messageHandlers, commandHandler, callbackHandlers, errorHandler, nreg,
                   history, started>>

NextApi ==
    \/ \E name \in ConcKeys : OnCommand(name)
    \/ \E messageType \in ConcTags : OnMessage(messageType)
    \/ \E data \in ConcKeys : OnCallback(data)
    \/ SetErrorHandler
    \/ \E w \in Workers : HandleWebhookConc(w)
    \/ \E w \in Workers : HandlerCalls(w)
    \/ \E w \in Workers : EditMessageText(w)
    \/ \E w \in Workers : Release(w)

SpecApi == Init /\ [][NextApi]_vars

(***************************************************************************)
(* A Bot built by NewBot(token, url, nil).  b.logger is an interface       *)
(* value; calling a method of a nil interface value panics.  Every         *)
(* deferred recover of the dispatch path logs first, so it panics anew.    *)
(***************************************************************************)
LogPanics(lg) == lg = "nil"

\* whether the path Begin has taken makes a log call before the handler is
\* called or, when no handler is called, before HandleWebhook returns
LogsOnPath(d) ==
    IF d.status \in {400, 405} THEN TRUE
    ELSE IF d.kind = "none" THEN TRUE
    ELSE IF d.kind = "callback" THEN TRUE
    ELSE \/ d.route \in {"malformed", "command", "unknown"}
         \/ d.pc = "done" /\ d.ret # NilErr

\* the panic of a log call leaves HandleWebhook
Escaped(d, reports) ==
    [d EXCEPT !.pc = "done", !.handler = 0, !.calls = <<>>, !.reports = reports,
              !.ret = Unwound("nil pointer dereference"), !.status = 0,
              !.escaped = TRUE]

BeginWith(lg, req, cmds, msgs, cbs, order) ==
    LET d == Begin(req, cmds, msgs, cbs, order)
    IN IF LogPanics(lg) /\ LogsOnPath(d) THEN Escaped(d, <<>>) ELSE d

\* safeExecute and the return to HandleWebhook with logger lg
AfterMessageHandlerWith(lg, d, o, eh, rb1, rb2, tr1, tr2) ==
    IF ~LogPanics(lg) \/ (o.type = "return" /\ o.err = NilErr)
    THEN AfterMessageHandler(d, o, eh, rb1, rb2, tr1, tr2)
    ELSE IF o.type = "return" /\ Classify(o.err) = "generic"
    THEN [Escaped(d, <<[ctx |-> d.ctx, err |-> o.err]>>)
             EXCEPT !.handler = d.handler, !.calls = d.calls, !.outcome = o]
    ELSE [Escaped(d, <<>>)
             EXCEPT !.handler = d.handler, !.calls = d.calls, !.outcome = o]

NilLoggerRequests ==
    ConcRequests \cup {[Method |-> "GET", Body |-> "json", Update |-> EmptyUpdate],
                       [Method |-> "POST", Body |-> "json", Update |-> EmptyUpdate]}

HandleWebhookNilLogger(w) ==
    /\ disp[w].pc = "idle"
    /\ \E req \in NilLoggerRequests, order \in Orders(DOMAIN callbackHandlers) :
          disp' = [disp EXCEPT ![w] =
                      BeginWith("nil", req, commandHandler, messageHandlers,
                                callbackHandlers, order)]
    /\ started' = TRUE
    /\ UNCHANGED <<messageHandlers, commandHandler, callbackHandlers, errorHandler, nreg,
                   history>>

\* with a nil logger only message handlers are reached
HandlerReturnsNilLogger(w) ==
    /\ disp[w].pc = "handler"
    /\ disp[w].kind = "message"
    /\ \E o \in HandlerOutcomes, rb1, rb2 \in ReporterBehaviours(errorHandler),
          tr1, tr2 \in ReporterTransport(errorHandler) :
          disp' = [disp EXCEPT ![w] =
                      AfterMessageHandlerWith("nil", disp[w], o, errorHandler,
                                              rb1, rb2, tr1, tr2)]
    /\ UNCHANGED <<messageHandlers, commandHandler, callbackHandlers, errorHandler, nreg,
                   history, started>>

NextNilLogger ==
    \/ \E name \in ConcKeys : OnCommand(name)
    \/ \E messageType \in ConcTags : OnMessage(messageType)
    \/ \E data \in ConcKeys : OnCallback(data)
    \/ SetErrorHandler
    \/ \E w \in Workers : HandleWebhookNilLogger(w)
    \/ \E w \in Workers : HandlerReturnsNilLogger(w)
    \/ \E w \in Workers : Release(w)

SpecNilLogger == Init /\ [][NextNilLogger]_vars

Routing == {w \in DOMAIN disp : disp[w].pc \in {"handler", "done"}}
Done == {w \in DOMAIN disp : disp[w].pc = "done"}

HasMessage(w) == disp[w].kind = "message"
HasCallback(w) == disp[w].kind = "callback"
MessageOf(w) == Get(disp[w].req.Update.Message)
CallbackOf(w) == Get(disp[w].req.Update.CallbackQuery)

\* the text "/C a1 a2"
CommandText(C, a1, a2) == <<"/">> \o C \o <<" ">> \o a1 \o <<" ">> \o a2

\* one invocation of handler h, with the Context of the dispatch
OneCall(w, h) == disp[w].calls = <<[handler |-> h, ctx |-> disp[w].ctx]>>

PlainName(C) == \A i \in 1..Len(C) : C[i] \notin {"/", " "}

\* C1 as stated: for every registered command name C and every text
\* "/C a1 a2", the handler registered for C is invoked exactly once, with
\* Args = [a1, a2], and no other handler is invoked.
C1_AnyRegisteredName ==
    \A w \in Routing : \A C \in DOMAIN commandHandler : \A a1, a2 \in Tokens :
        (HasMessage(w) /\ MessageOf(w).Text = CommandText(C, a1, a2))
        => /\ OneCall(w, commandHandler[C])
           /\ disp[w].ctx.Args = <<a1, a2>>

\* C1 amended: the same for every registered command name C that contains
\* neither "/" nor a space.
C1_PlainRegisteredName ==
    \A w \in Routing : \A C \in DOMAIN commandHandler : \A a1, a2 \in Tokens :
        (HasMessage(w) /\ PlainName(C) /\ MessageOf(w).Text = CommandText(C, a1, a2))
        => /\ OneCall(w, commandHandler[C])
           /\ disp[w].ctx.Args = <<a1, a2>>

\* a finished dispatch of "/a a /" with two commands registered
C1_Witness ==
    \E w \in Done :
        /\ HasMessage(w)
        /\ MessageOf(w).Text = CommandText(<<"a">>, <<"a">>, <<"/">>)
        /\ Cardinality(DOMAIN commandHandler) = 2
        /\ <<"a">> \in DOMAIN commandHandler
        /\ OneCall(w, commandHandler[<<"a">>])
        /\ disp[w].ctx.Args = <<<<"a">>, <<"/">>>>

\* the dispatches whose handler was run by safeExecute and has finished
Guarded == {w \in Done : HasMessage(w) /\ disp[w].handler # 0}

ReturnedError(w) == disp[w].outcome.type = "return" /\ disp[w].outcome.err # NilErr

Report(w, err) == [ctx |-> disp[w].ctx, err |-> err]

\* C2: when the handler run by safeExecute panics, the fallback reporter is
\* invoked exactly once, with the Context of the dispatch and an error that
\* describes the fault, and handleMessageUpdate returns to HandleWebhook,
\* which answers 200.
C2_PanicReportedOnce ==
    \A w \in Guarded :
        disp[w].outcome.type = "panic"
        => /\ disp[w].reports = <<Report(w, PanicError(disp[w].outcome.value))>>
           /\ disp[w].ret = NilErr
           /\ disp[w].status = 200

\* a command handler has panicked and the custom reporter has run
C2_Witness ==
    \E w \in Guarded :
        /\ disp[w].outcome.type = "panic"
        /\ disp[w].route = "command"
        /\ errorHandler = "custom"
        /\ Len(disp[w].reports) = 1

\* C3: when the handler returns an error of API code 403, the fallback
\* reporter is not invoked and safeExecute returns that error.
C3_BlockedNotReported ==
    \A w \in Guarded :
        (ReturnedError(w) /\ disp[w].outcome.err.kind = "BotError"
            /\ disp[w].outcome.err.Code = 403)
        => /\ disp[w].reports = <<>>
           /\ disp[w].api = <<>>
           /\ disp[w].seRet = disp[w].outcome.err

\* a content handler has returned a 403 error
C3_Witness ==
    \E w \in Guarded :
        /\ disp[w].outcome.err = BotError(403, "Forbidden")
        /\ disp[w].route = "content"
        /\ disp[w].seRet = BotError(403, "Forbidden")

\* C4 as stated: when the handler returns an error that is neither 403 nor
\* 429, the fallback reporter is invoked exactly once, with the Context and
\* that error, and safeExecute returns that error.
C4_GenericReportedOnce ==
    \A w \in Guarded :
        (ReturnedError(w) /\ ~(disp[w].outcome.err.kind = "BotError"
                               /\ disp[w].outcome.err.Code \in {403, 429}))
        => /\ disp[w].reports = <<Report(w, disp[w].outcome.err)>>
           /\ disp[w].seRet = disp[w].outcome.err

\* C5: when the handler returns an error of API code 429, the handler has
\* been invoked once only, the fallback reporter is not invoked and the
\* error is returned to the caller of safeExecute and of handleMessageUpdate.
C5_RateLimitedNoRetry ==
    \A w \in Guarded :
        (ReturnedError(w) /\ disp[w].outcome.err.kind = "BotError"
            /\ disp[w].outcome.err.Code = 429)
        => /\ OneCall(w, disp[w].handler)
           /\ disp[w].reports = <<>>
           /\ disp[w].api = <<>>
           /\ disp[w].seRet = disp[w].outcome.err
           /\ disp[w].ret = disp[w].outcome.err

\* a command handler has returned a 429 error
C5_Witness ==
    \E w \in Guarded :
        /\ disp[w].outcome.err = BotError(429, "Too Many Requests")
        /\ disp[w].route = "command"
        /\ disp[w].ret = BotError(429, "Too Many Requests")

\* the registered callback keys that are prefixes of the data of w's query
PrefixKeys(w) == {k \in DOMAIN callbackHandlers : HasPrefix(CallbackOf(w).Data, k)}

\* C6: when the callback data equals a registered key K, the handler
\* registered under K is invoked, once, and no other, whichever registered
\* keys are proper prefixes of the data and whatever the iteration order.
C6_ExactMatchWins ==
    \A w \in Routing :
        (HasCallback(w) /\ CallbackOf(w).Data \in DOMAIN callbackHandlers)
        => OneCall(w, callbackHandlers[CallbackOf(w).Data])

\* the data equals a key and another registered key is a proper prefix of it
C6_Witness ==
    \E w \in Done :
        /\ HasCallback(w)
        /\ CallbackOf(w).Data \in DOMAIN callbackHandlers
        /\ Cardinality(PrefixKeys(w)) = 2
        /\ OneCall(w, callbackHandlers[CallbackOf(w).Data])

\* C7: when the callback data equals no registered key and at least one
\* registered key is a prefix of it, exactly one handler is invoked, once,
\* and its key is a prefix of the data, for every iteration order.
C7_OnePrefixHandler ==
    \A w \in Routing :
        (HasCallback(w) /\ CallbackOf(w).Data \notin DOMAIN callbackHandlers
            /\ PrefixKeys(w) # {})
        => \E k \in PrefixKeys(w) : OneCall(w, callbackHandlers[k])

\* two registered keys are proper prefixes of the data and the handler of
\* the one registered first has run
C7_Witness ==
    \E w \in Done :
        /\ HasCallback(w)
        /\ CallbackOf(w).Data \notin DOMAIN callbackHandlers
        /\ Cardinality(PrefixKeys(w)) = 2
        /\ OneCall(w, 1)

\* C8: when no registered key equals or is a prefix of the callback data,
\* no handler is invoked and handleCallbackQuery returns nil.
C8_NoMatchReturnsNil ==
    \A w \in Done :
        (HasCallback(w) /\ PrefixKeys(w) = {})
        => /\ disp[w].calls = <<>>
           /\ disp[w].reports = <<>>
           /\ disp[w].ret = NilErr

\* keys are registered, none matches the data
C8_Witness ==
    \E w \in Done :
        /\ HasCallback(w)
        /\ Cardinality(DOMAIN callbackHandlers) = 2
        /\ PrefixKeys(w) = {}
        /\ disp[w].ret = NilErr

\* the content fields of a message that are populated
Populated(message) ==
    {t \in ContentTags : IF t = "Text" THEN message.Text # <<>> ELSE message.Media[t] # 0}

\* the Context's field for content tag t holds the message's value
ContextHas(ctx, message, t) ==
    IF t = "Text"
    THEN ctx.Text = message.Text /\ ctx.Media = NoMedia
    ELSE ctx.Media = [NoMedia EXCEPT ![t] = message.Media[t]]

ContentMessage(w, t) ==
    /\ HasMessage(w)
    /\ ~HasPrefix(MessageOf(w).Text, <<"/">>)
    /\ Populated(MessageOf(w)) = {t}

\* C9: for a message whose text does not start with "/" and that has
\* exactly one content field populated, a handler registered under that
\* field's tag is invoked, once and alone, with a Context whose
\* corresponding field is the message's value.
C9_ContentHandlerInvoked ==
    \A w \in Routing : \A t \in ContentTags :
        (ContentMessage(w, t) /\ t \in DOMAIN messageHandlers)
        => /\ OneCall(w, messageHandlers[t])
           /\ ContextHas(disp[w].ctx, MessageOf(w), t)

\* a Video message has been dispatched to the Video handler while a Photo
\* handler is registered too
C9_Witness ==
    \E w \in Done :
        /\ ContentMessage(w, "Video")
        /\ DOMAIN messageHandlers = {"Photo", "Video"}
        /\ OneCall(w, messageHandlers["Video"])
        /\ disp[w].ctx.Media["Video"] = 1

\* C10: for such a message, when no handler is registered under the field's
\* tag, no handler and no fallback reporter is invoked and HandleWebhook
\* completes normally.
C10_ContentMissIsQuiet ==
    \A w \in Done : \A t \in ContentTags :
        (ContentMessage(w, t) /\ t \notin DOMAIN messageHandlers)
        => /\ disp[w].calls = <<>>
           /\ disp[w].reports = <<>>
           /\ disp[w].ret.kind # "unwound"
           /\ disp[w].status = 200

\* a Photo message with only Text and Video handlers registered
C10_Witness ==
    \E w \in Done :
        /\ ContentMessage(w, "Photo")
        /\ DOMAIN messageHandlers = {"Text", "Video"}
        /\ disp[w].calls = <<>>
        /\ disp[w].status = 200

MalformedCommand == BotError(500, "Not a valid command")
UnknownCommand == BotError(404, "Unknown command")
UnsupportedMessage ==
    BotError(400, "Unsupported message type received. No handler is available for this message type.")

\* C11: for the text "/" handleMessageUpdate reports the "Not a valid
\* command" error and invokes no handler, whatever is registered.
C11_SlashIsMalformed ==
    \A w \in Done :
        (HasMessage(w) /\ MessageOf(w).Text = <<"/">>)
        => /\ disp[w].calls = <<>>
           /\ disp[w].ret = MalformedCommand

\* the command name of a text that starts with "/": what follows the "/",
\* up to the next "/" or space
RECURSIVE NameFrom(_)
NameFrom(s) ==
    IF s = <<>> \/ Head(s) \in {"/", " "}
    THEN <<>>
    ELSE <<Head(s)>> \o NameFrom(Tail(s))

IsCommandText(text) == text # <<>> /\ Head(text) = "/"

\* C12: for a text that starts with "/" and whose command name is not
\* registered, handleMessageUpdate returns the "Unknown command" error and
\* invokes no handler (not the "Text" handler either) and no reporter.
C12_UnknownCommand ==
    \A w \in Done :
        (HasMessage(w) /\ IsCommandText(MessageOf(w).Text)
            /\ NameFrom(Tail(MessageOf(w).Text)) \notin DOMAIN commandHandler)
        => /\ disp[w].calls = <<>>
           /\ disp[w].reports = <<>>
           /\ disp[w].api = <<>>
           /\ disp[w].ret = UnknownCommand

\* "/a /" with a "Text" handler and another command registered
C12_Witness ==
    \E w \in Done :
        /\ HasMessage(w)
        /\ MessageOf(w).Text = <<"/", "a", " ", "/">>
        /\ DOMAIN commandHandler = {<<>>}
        /\ DOMAIN messageHandlers = {"Text"}
        /\ disp[w].calls = <<>>
        /\ disp[w].ret = UnknownCommand

\* C13: for a message with an empty text and no other content field,
\* handleMessageUpdate reports the "unsupported message type" error and
\* invokes no handler and no reporter; the command registry is not
\* consulted, even with a handler registered under the empty name.
C13_EmptyIsUnsupported ==
    \A w \in Done :
        (HasMessage(w) /\ Populated(MessageOf(w)) = {})
        => /\ disp[w].calls = <<>>
           /\ disp[w].reports = <<>>
           /\ disp[w].route = "unsupported"
           /\ disp[w].ret = UnsupportedMessage

\* an empty message with handlers for the empty command and for "Text"
C13_Witness ==
    \E w \in Done :
        /\ HasMessage(w)
        /\ Populated(MessageOf(w)) = {}
        /\ DOMAIN commandHandler = {<<>>}
        /\ DOMAIN messageHandlers = {"Text"}
        /\ disp[w].ret = UnsupportedMessage

\* the handler passed by the most recent registration call for a key
\* (0: the key was never registered)
Registrations(registry, key) ==
    {i \in 1..Len(history) : history[i] = [registry |-> registry, key |-> key]}

LastRegistered(registry, key) ==
    IF Registrations(registry, key) = {}
    THEN 0
    ELSE CHOOSE i \in Registrations(registry, key) :
            \A j \in Registrations(registry, key) : j <= i

\* C14: a dispatch that looks up key K invokes the handler of the most
\* recent registration for K (OnMessage, OnCallback): a handler replaced by
\* a later registration under the same key is not invoked.
C14_LastRegistrationWins ==
    \A w \in Routing :
        /\ (HasMessage(w) /\ disp[w].route = "content")
           => \E t \in Populated(MessageOf(w)) :
                 OneCall(w, LastRegistered("message", <<t>>))
        /\ (HasCallback(w) /\ disp[w].route = "exact")
           => OneCall(w, LastRegistered("callback", CallbackOf(w).Data))
        /\ (HasCallback(w) /\ disp[w].route = "prefix")
           => \E k \in PrefixKeys(w) : OneCall(w, LastRegistered("callback", k))

\* "Photo" was registered twice and a Photo message reached the second handler
C14_Witness ==
    \E w \in Done :
        /\ Len(history) = 2
        /\ history[1] = [registry |-> "message", key |-> <<"Photo">>]
        /\ history[2] = history[1]
        /\ ContentMessage(w, "Photo")
        /\ OneCall(w, 2)

Decoded(w) == disp[w].req.Method = "POST" /\ disp[w].req.Body = "json"

\* C15: a POST request whose body decodes to an update is answered with
\* status 200, whatever the outcome of the dispatch.
C15_DecodedPostAnswers200 ==
    \A w \in Done : Decoded(w) => ResponseStatus(disp[w]) = 200

\* an unknown command, answered 200
C15_Witness ==
    \E w \in Done :
        /\ Decoded(w)
        /\ disp[w].ret = UnknownCommand
        /\ ResponseStatus(disp[w]) = 200

\* C16: the status is not 200 only for a method other than POST (405) or a
\* body that cannot be read or decoded (400), and in both cases no router
\* is entered: no handler and no reporter is invoked.
C16_OnlyRequestErrorsFail ==
    \A w \in Done :
        /\ disp[w].req.Method # "POST" <=> ResponseStatus(disp[w]) = 405
        /\ (disp[w].req.Method = "POST" /\ disp[w].req.Body # "json")
           <=> ResponseStatus(disp[w]) = 400
        /\ ResponseStatus(disp[w]) \in {200, 400, 405}
        /\ ResponseStatus(disp[w]) # 200
           => /\ disp[w].kind = "none"
              /\ disp[w].calls = <<>>
              /\ disp[w].reports = <<>>

\* a GET request is refused while handlers are registered
C16_Witness ==
    \E w \in Done :
        /\ disp[w].req.Method = "GET"
        /\ disp[w].status = 405
        /\ nreg = 2
        /\ disp[w].calls = <<>>

\* C17: no panic leaves HandleWebhook, whatever the handler and the
\* fallback reporter do.
C17_NoPanicEscapes ==
    \A w \in Done : ~disp[w].escaped

\* a handler has returned an error, the reporter has panicked on both of
\* its invocations, and HandleWebhook has returned
C17_Witness ==
    \E w \in Done :
        /\ HasMessage(w)
        /\ ReturnedError(w)
        /\ Len(disp[w].reports) = 2
        /\ disp[w].seRet.kind = "unwound"
        /\ ~disp[w].escaped

\* C18: after a handler panic safeExecute returns, and handleMessageUpdate
\* passes on, a non-nil error that carries the description of the fault:
\* the error that was given to the fallback reporter.
C18_PanicErrorPropagated ==
    \A w \in Guarded :
        (disp[w].outcome.type = "panic" /\ Len(disp[w].reports) = 1)
        => /\ disp[w].seRet = disp[w].reports[1].err
           /\ disp[w].ret = disp[w].seRet

\* C19: a callback handler that panics or returns an error that is neither
\* 403 nor 429 causes the fallback reporter to run exactly once.
C19_CallbackHandlerGuarded ==
    \A w \in Done :
        (HasCallback(w) /\ disp[w].handler # 0
            /\ \/ disp[w].outcome.type = "panic"
               \/ ReturnedError(w) /\ Classify(disp[w].outcome.err) = "generic")
        => Len(disp[w].reports) = 1

\* the Context given to the handler of dispatch w, the Context given to
\* the reporter and the chat of the reporter's reply come from the event of
\* dispatch w
OwnContext(w) ==
    LET c == disp[w].calls[1].ctx
    IN /\ IF HasMessage(w)
          THEN LET m == MessageOf(w)
               IN /\ c.ChatID = m.Chat
                  /\ c.UserID = m.From
                  /\ c.MessageId = m.MessageId
                  /\ c.Text = m.Text
                  /\ c.Args = IF disp[w].route = "command"
                              THEN Tail(Split(m.Text, " "))
                              ELSE <<>>
                  /\ \A t \in MediaTags :
                        c.Media[t] = IF disp[w].route = "content"
                                        /\ t = ContentOrder[FirstCase(m)]
                                     THEN m.Media[t]
                                     ELSE 0
                  /\ \A i \in 1..Len(disp[w].api) : disp[w].api[i].params.chat_id = m.Chat
          ELSE LET cb == CallbackOf(w)
               IN /\ c.QueryID = cb.ID
                  /\ c.Data = cb.Data
                  /\ c.UserID = cb.From
                  /\ c.Message = cb.Message
       /\ \A i \in 1..Len(disp[w].reports) : disp[w].reports[i].ctx = c

C20_OwnContext ==
    \A w \in Routing : disp[w].calls # <<>> => OwnContext(w)

\* C20: with concurrent dispatches, every handler invocation has a Context
\* built from its own event only, and no step of a dispatch changes the
\* command, message or callback registry.
C20_ContextsAreOwned ==
    /\ []C20_OwnContext
    /\ [][disp' # disp
            => UNCHANGED <<commandHandler, messageHandlers, callbackHandlers>>]_vars

\* two handlers run at the same time for commands of different chats with
\* different arguments, one still running, the other reported to its chat
C20_Witness ==
    \E v, w \in Routing :
        /\ disp[v].pc = "handler" /\ disp[v].route = "command"
        /\ disp[w].pc = "done" /\ disp[w].route = "command"
        /\ disp[v].calls # <<>> /\ disp[w].calls # <<>>
        /\ disp[v].ctx.ChatID # disp[w].ctx.ChatID
        /\ disp[v].ctx.Args = <<<<"a">>>>
        /\ disp[w].ctx.Args = <<<<"/">>>>
        /\ Len(disp[w].api) = 1

Position(t) == CHOOSE i \in 1..Len(ContentOrder) : ContentOrder[i] = t

PlainMessage(w) == HasMessage(w) /\ ~HasPrefix(MessageOf(w).Text, <<"/">>)

\* C25: for a message whose text does not start with "/", when the first
\* populated content field has no handler and a later populated field has
\* one, the handler of the first such later field is invoked with that
\* field set in the Context.
C25_MissAdvances ==
    \A w \in Routing : \A f1, f2 \in ContentTags :
        (/\ PlainMessage(w)
         /\ {f1, f2} \subseteq Populated(MessageOf(w))
         /\ f1 = ContentOrder[FirstCase(MessageOf(w))]
         /\ f1 \notin DOMAIN messageHandlers
         /\ f2 \in DOMAIN messageHandlers
         /\ \A t \in Populated(MessageOf(w)) \cap DOMAIN messageHandlers :
               Position(f2) <= Position(t))
        => /\ OneCall(w, messageHandlers[f2])
           /\ ContextHas(disp[w].ctx, MessageOf(w), f2)

\* C26: for a message whose text does not start with "/" and that has
\* several content fields populated, each with a registered handler,
\* exactly one handler is invoked: the one of the populated field that
\* comes first in the order Text, Photo, ..., VideoNote.
C26_FirstPopulatedWins ==
    \A w \in Routing :
        (/\ PlainMessage(w)
         /\ Cardinality(Populated(MessageOf(w))) >= 2
         /\ Populated(MessageOf(w)) \subseteq DOMAIN messageHandlers)
        => \E f \in Populated(MessageOf(w)) :
              /\ \A t \in Populated(MessageOf(w)) : Position(f) <= Position(t)
              /\ OneCall(w, messageHandlers[f])

\* a message with a photo and a video, handlers for both: the Photo
\* handler has run
C26_Witness ==
    \E w \in Done :
        /\ PlainMessage(w)
        /\ Populated(MessageOf(w)) = {"Photo", "Video"}
        /\ DOMAIN messageHandlers = {"Photo", "Video"}
        /\ OneCall(w, messageHandlers["Photo"])

\* C28: the fallback reporter is invoked at most once per dispatch, also
\* when the handler returns a generic error and the reporter panics.
C28_ReporterAtMostOnce ==
    \A w \in Done : Len(disp[w].reports) <= 1

Both(w) == disp[w].req.Update.Message # None /\ disp[w].req.Update.CallbackQuery # None

CallbackHandlerIds == {callbackHandlers[k] : k \in DOMAIN callbackHandlers}

\* C29: at most one handler is invoked per update; when the update carries
\* a message and a callback query only the message is dispatched and no
\* callback handler runs, also when the message router finds no handler.
C29_OneHandlerPerUpdate ==
    \A w \in Routing :
        /\ Len(disp[w].calls) <= 1
        /\ (Decoded(w) /\ Both(w))
           => /\ HasMessage(w)
              /\ disp[w].ctx.ChatID = MessageOf(w).Chat
              /\ \A i \in 1..Len(disp[w].calls) :
                    disp[w].calls[i].handler \notin CallbackHandlerIds

\* an update with a message that no handler takes and a callback query
\* whose data is a registered key: nothing is invoked
C29_Witness ==
    \E w \in Done :
        /\ Decoded(w) /\ Both(w)
        /\ CallbackOf(w).Data \in DOMAIN callbackHandlers
        /\ disp[w].route \in {"miss", "unknown", "unsupported"}
        /\ disp[w].calls = <<>>

Apology == "Sorry, something went wrong. Please try again later."

\* C24: the default fallback reporter makes exactly one sendMessage
\* invocation, to the chat of the Context it was given, with the apology
\* text; whatever the transport answers, the reporter is not invoked again,
\* no further invocation is made and safeExecute returns the error the
\* handler returned.
C24_DefaultReporterBestEffort ==
    \A w \in Guarded :
        (errorHandler = "default" /\ disp[w].reports # <<>>)
        => /\ Len(disp[w].reports) = 1
           /\ Len(disp[w].api) = 1
           /\ disp[w].api[1].op = "sendMessage"
           /\ disp[w].api[1].params.chat_id = disp[w].reports[1].ctx.ChatID
           /\ disp[w].api[1].params.chat_id = MessageOf(w).Chat
           /\ disp[w].api[1].params.text = Apology
           /\ ReturnedError(w) => disp[w].seRet = disp[w].outcome.err

\* a handler has returned a plain error and the transport has refused the
\* apology of the default reporter
C24_Witness ==
    \E w \in Guarded :
        /\ errorHandler = "default"
        /\ disp[w].outcome.err = PlainError("failed")
        /\ Len(disp[w].reports) = 1
        /\ Len(disp[w].api) = 1
        /\ disp[w].api[1].err = BotError(403, "Forbidden")
        /\ disp[w].seRet = PlainError("failed")

OwnChat(w) == IF HasMessage(w) THEN MessageOf(w).Chat ELSE CallbackOf(w).Message.Chat

Replied(w) ==
    /\ disp[w].handler # 0
    /\ disp[w].asked # <<>>
    /\ disp[w].asked[1].method \in {"Reply", "ReplyWithOpts", "ReplyWithInlineKeyboard"}

\* C23: a reply made through a Context is exactly one transport invocation
\* of "sendMessage" whose chat_id is the chat of the triggering event and
\* whose text is the text the handler passed, and what the transport
\* answers is what the handler gets; every other invocation of the dispatch
\* is the apology of the default reporter.
C23_ReplyRoundTrip ==
    \A w \in Done :
        Replied(w)
        => /\ Len(disp[w].api) = 1 + (IF errorHandler = "default" THEN Len(disp[w].reports) ELSE 0)
           /\ disp[w].api[1].op = "sendMessage"
           /\ disp[w].api[1].params.chat_id = OwnChat(w)
           /\ disp[w].api[1].params.text = disp[w].asked[1].text
           /\ disp[w].outcome.err = disp[w].api[1].err
           /\ \A i \in 2..Len(disp[w].api) : disp[w].api[i].params.text = Apology
           /\ Len(disp[w].calls) = 1

\* a command handler has replied through ReplyWithOpts with a request
\* naming another chat, and the transport has refused
C23_Witness ==
    \E w \in Done :
        /\ Replied(w)
        /\ HasMessage(w)
        /\ disp[w].asked[1] = Asked("ReplyWithOpts", "hello")
        /\ disp[w].api[1].params.chat_id = MessageOf(w).Chat
        /\ disp[w].api[1].err = BotError(403, "Forbidden")
        /\ disp[w].seRet = BotError(403, "Forbidden")

\* C30: Bot.EditMessageText makes exactly one transport invocation, of
\* "editMessageText", with the chat id, the message id and the new text of
\* the request.
C30_EditMessageTextSendsEdit ==
    \A w \in Done :
        disp[w].kind = "edit"
        => /\ Len(disp[w].api) = 1
           /\ disp[w].api[1].op = "editMessageText"
           /\ disp[w].api[1].params.chat_id = disp[w].asked[1].req.ChatId
           /\ disp[w].api[1].params.message_id = disp[w].asked[1].req.MessageId
           /\ "text" \in DOMAIN disp[w].api[1].params
           /\ disp[w].api[1].params.text = disp[w].asked[1].req.Text

Whitespace == {" ", "\t", "\n"}

\* C27: the argument list of a command's Context holds the tokens that
\* follow the command token, split at whitespace: no argument is empty and
\* no argument contains whitespace.
C27_ArgsAreWhitespaceTokens ==
    \A w \in Routing :
        (HasMessage(w) /\ disp[w].route \in {"command", "unknown"})
        => \A i \in 1..Len(disp[w].ctx.Args) :
              /\ disp[w].ctx.Args[i] # <<>>
              /\ \A j \in 1..Len(disp[w].ctx.Args[i]) :
                    disp[w].ctx.Args[i][j] \notin Whitespace

\* what the dispatch of w's request does with a working logger, up to the
\* handler call
Working(w, order) ==
    Begin(disp[w].req, commandHandler, messageHandlers, callbackHandlers, order)

\* C22: a bot built with a nil logger invokes the same handler with the
\* same Context, makes the same reporter calls and returns the same result
\* as a bot built with a working logger does for the same update and
\* registries.
C22_LoggerIndependent ==
    \A w \in Routing :
        \E order \in Orders(DOMAIN callbackHandlers) :
            /\ disp[w].calls = Working(w, order).calls
            /\ Working(w, order).pc = "done"
               => /\ disp[w].reports = Working(w, order).reports
                  /\ disp[w].ret = Working(w, order).ret
            /\ (Working(w, order).pc = "handler" /\ disp[w].pc = "done")
               => \E rb1, rb2 \in ReporterBehaviours(errorHandler),
                     tr1, tr2 \in ReporterTransport(errorHandler) :
                     LET e == AfterMessageHandler(Working(w, order), disp[w].outcome,
                                                  errorHandler, rb1, rb2, tr1, tr2)
                     IN /\ disp[w].reports = e.reports
                        /\ disp[w].ret = e.ret

\* dispatch w has selected, reported and returned what its request gives
\* when it is the only dispatch
AsAlone(w) ==
    \E order \in Orders(DOMAIN callbackHandlers) :
        /\ disp[w].handler = Working(w, order).handler
        /\ disp[w].calls = Working(w, order).calls
        /\ Working(w, order).pc = "done"
           => /\ disp[w].reports = <<>>
              /\ disp[w].ret = Working(w, order).ret
        /\ (Working(w, order).pc = "handler" /\ disp[w].pc = "done")
           => \E rb1, rb2 \in ReporterBehaviours(errorHandler),
                 tr1, tr2 \in ReporterTransport(errorHandler) :
                 LET e == IF disp[w].kind = "message"
                          THEN AfterMessageHandler(Working(w, order), disp[w].outcome,
                                                   errorHandler, rb1, rb2, tr1, tr2)
                          ELSE AfterCallbackHandler(Working(w, order), disp[w].outcome)
                 IN /\ disp[w].reports = e.reports
                    /\ disp[w].ret = e.ret

C21_AsAlone == \A w \in Routing : AsAlone(w)

\* C21: with two concurrent dispatches, whatever the handler of the other
\* does (panic, error, never returning), a dispatch whose handler has been
\* called completes unless its own handler never returns, and its handler
\* selection, reporter calls and result are those of the dispatch alone.
C21_NoInterference ==
    /\ []C21_AsAlone
    /\ \A w \in ConcWorkers :
          (disp[w].pc = "handler") ~> (disp[w].pc \in {"done", "hung"})

\* one handler never returns, another has panicked in the meantime, and
\* the dispatch of the latter is complete
C21_Witness ==
    \E v, w \in DOMAIN disp :
        /\ disp[v].pc = "hung"
        /\ disp[w].pc = "done"
        /\ disp[w].outcome.type = "panic"
        /\ Len(disp[w].reports) = 1

====
